---------------------------- MODULE Spec2Model ----------------------------
(***************************************************************************)
(* Model of the protocol session manager of mcp-browser-logger             *)
(* (src/src/index.ts): the process-wide `browser` singleton, the WebSocket *)
(* channels it constructs, the tool calls that run against it and the      *)
(* callbacks of the channels.                                              *)
(*                                                                         *)
(* Scheduling: Node's single thread.  Every action below is one macrotask  *)
(* (a tool call up to its first await on I/O, the completion of the        *)
(* discovery fetch, or one channel event) together with the promise        *)
(* continuations (microtasks) it makes runnable.                           *)
(***************************************************************************)
EXTENDS Integers, Sequences, FiniteSets, TLC

\* ------------------------------------------------------------------ bounds
MaxSockets == 1      \* channels constructed in one behaviour of Spec and SpecCmd
MoreSockets == 2     \* channels constructed in one behaviour of SpecOverlap
MaxFetching == 1     \* connect calls awaiting the discovery document at one time
MaxId == 1           \* largest correlation id a tool call is given in Spec and SpecOverlap
MaxCmdId == 6        \* largest correlation id a tool call is given in SpecCmd
MaxTabs == 1         \* longest target list the discovery endpoint returns
MaxRecords == 1      \* records per store in the session specification
MaxAppends == 1002   \* records appended to one store in SpecStore
MaxLogged == 5       \* records appended to one store in SpecQuery
MaxLimit == 3        \* largest limit a query names
MaxRequests == 3     \* records of the network store in SpecNetwork

\* --------------------------------------------------------- program constants
maxMessages == 1000

NoSocket == 0                \* browser.ws = null
Null == <<>>                 \* browserType / currentTab = null, or an absent field
ChromeInitCommands == <<"Runtime.enable", "Log.enable", "Network.enable", "Console.enable">>
FirefoxInitCommands == <<"consoleAPICall", "pageError">>

Min(a, b) == IF a < b THEN a ELSE b

VARIABLES
    browser,     \* the BrowserConnection singleton
    sockets,     \* the WebSocket objects constructed so far, in construction order
    fetching,    \* the connect_browser calls that await the discovery document
    waiting,     \* the correlation ids whose promise a tool call awaits
    replies,     \* the tool results returned in the latest macrotask
    unhandled,   \* the latest macrotask ended a callback with an unhandled rejection
    appended,    \* SpecStore, SpecQuery: how many records each store has been handed
    input        \* SpecQuery, SpecEvents: what the latest macrotask was given (the
                 \* arguments of a query, the frame delivered), Null otherwise

vars == <<browser, sockets, fetching, waiting, replies, unhandled, appended, input>>

\* The state a macrotask starts from, as one value threaded through the
\* handlers: what the previous macrotask returned is not part of it.
State ==
    [browser |-> browser, sockets |-> sockets, fetching |-> fetching, waiting |-> waiting,
     replies |-> <<>>, unhandled |-> FALSE, input |-> Null]

Install(st) ==
    /\ browser' = st.browser
    /\ sockets' = st.sockets
    /\ fetching' = st.fetching
    /\ waiting' = st.waiting
    /\ replies' = st.replies
    /\ unhandled' = st.unhandled
    /\ appended' = appended
    /\ input' = st.input

\* ------------------------------------------------------------ record store
\* addMessage that evicts when the store reaches the capacity.
addMessage_evictAtCapacity(b, message) ==
    LET pushed == Append(b.messages, message)
    IN  [b EXCEPT !.messages = IF Len(pushed) >= maxMessages THEN Tail(pushed) ELSE pushed]

addMessage(b, message) ==
    LET pushed == Append(b.messages, message)
    IN  [b EXCEPT !.messages = IF Len(pushed) > maxMessages THEN Tail(pushed) ELSE pushed]

addNetworkRequest(b, request) ==
    LET pushed == Append(b.networkRequests, request)
    IN  [b EXCEPT !.networkRequests = IF Len(pushed) > maxMessages THEN Tail(pushed) ELSE pushed]

\* ----------------------------------------------------------------- frames
\* One inbound frame.  kind "json" is a document JSON.parse accepts, kind
\* "malformed" one it rejects.  id = 0, method = "", type = "" stand for an
\* absent field; ok = FALSE is a payload on which the record builder throws
\* (params.args, params.entry, message.message ... missing).
BaseFrame ==
    [kind |-> "json", id |-> 0, error |-> FALSE, method |-> "", type |-> "", ok |-> TRUE,
     level |-> "", requestId |-> "", httpMethod |-> "", status |-> 0, timestamp |-> 0,
     mimeType |-> "", headers |-> ""]

ResultFrame(id) == [BaseFrame EXCEPT !.id = id]
ErrorFrame(id) == [BaseFrame EXCEPT !.id = id, !.error = TRUE]
MalformedFrame == [BaseFrame EXCEPT !.kind = "malformed", !.ok = FALSE]
ChromeConsoleFrame(method, level, ok) ==
    [BaseFrame EXCEPT !.method = method, !.level = level, !.ok = ok]
ChromeRequestFrame(requestId, httpMethod, timestamp) ==
    [BaseFrame EXCEPT !.method = "Network.requestWillBeSent", !.requestId = requestId,
                      !.httpMethod = httpMethod, !.timestamp = timestamp]
ChromeResponseFrame(requestId, status, timestamp) ==
    [BaseFrame EXCEPT !.method = "Network.responseReceived", !.requestId = requestId,
                      !.status = status, !.timestamp = timestamp,
                      !.mimeType = "text/html", !.headers = "content-type"]
FirefoxFrame(type, level, ok) == [BaseFrame EXCEPT !.type = type, !.level = level, !.ok = ok]

\* The result field of the response frame the browser writes for command `id`.
ResultOf(id) == <<"result", id>>

\* -------------------------------------------------------- record builders
\* Each builder gives <<threw, browser'>>: threw = TRUE when the handler
\* raised before it reached the store.
ConsoleMessage(level, source, now) ==
    [level |-> level, source |-> source, timestamp |-> now]

handleFirefoxConsoleAPI(b, data, now) ==
    IF ~data.ok THEN <<TRUE, b>>
    ELSE <<FALSE, addMessage(b, ConsoleMessage(data.level, "firefox-console", now))>>

handleFirefoxPageError(b, data, now) ==
    IF ~data.ok THEN <<TRUE, b>>
    ELSE <<FALSE, addMessage(b, ConsoleMessage("error", "firefox-error", now))>>

handleConsoleAPICalled(b, params, now) ==
    IF ~params.ok THEN <<TRUE, b>>
    ELSE <<FALSE, addMessage(b, ConsoleMessage(params.level, "console-api", now))>>

handleLogEntryAdded(b, params, now) ==
    IF ~params.ok THEN <<TRUE, b>>
    ELSE <<FALSE, addMessage(b, ConsoleMessage(params.level, "browser-log", now))>>

handleExceptionThrown(b, params, now) ==
    IF ~params.ok THEN <<TRUE, b>>
    ELSE <<FALSE, addMessage(b, ConsoleMessage("error", "javascript-exception", now))>>

handleNetworkRequest(b, params, now) ==
    IF ~params.ok THEN <<TRUE, b>>
    ELSE <<FALSE, addNetworkRequest(b,
              [requestId |-> params.requestId,
               method |-> params.httpMethod,
               timestamp |-> IF params.timestamp # 0 THEN params.timestamp ELSE now,
               status |-> Null,
               mimeType |-> Null,
               responseHeaders |-> Null,
               timing |-> Null])>>

\* Array.prototype.find: the index of the first record with the identifier, 0 if none.
FindRequest(requests, requestId) ==
    LET hits == {i \in 1..Len(requests) : requests[i].requestId = requestId}
    IN  IF hits = {} THEN 0 ELSE CHOOSE i \in hits : \A j \in hits : i <= j

\* handleNetworkResponse that files a record for a response to no request.
handleNetworkResponse_create(b, params) ==
    IF ~params.ok THEN <<TRUE, b>>
    ELSE LET i == FindRequest(b.networkRequests, params.requestId)
         IN  IF i = 0
             THEN <<FALSE, addNetworkRequest(b,
                      [requestId |-> params.requestId, method |-> "", timestamp |-> params.timestamp,
                       status |-> <<params.status>>, mimeType |-> <<params.mimeType>>,
                       responseHeaders |-> <<params.headers>>, timing |-> Null])>>
             ELSE <<FALSE, [b EXCEPT !.networkRequests[i].status = <<params.status>>]>>

\* handleNetworkResponse that records the status and leaves the rest of
\* the response out.
handleNetworkResponse_statusOnly(b, params) ==
    IF ~params.ok THEN <<TRUE, b>>
    ELSE LET i == FindRequest(b.networkRequests, params.requestId)
         IN  IF i = 0 THEN <<FALSE, b>>
             ELSE <<FALSE, [b EXCEPT !.networkRequests[i].status = <<params.status>>]>>

handleNetworkResponse(b, params) ==
    IF ~params.ok THEN <<TRUE, b>>
    ELSE LET i == FindRequest(b.networkRequests, params.requestId)
         IN  IF i = 0 THEN <<FALSE, b>>
             ELSE LET r == b.networkRequests[i]
                  IN  <<FALSE,
                        [b EXCEPT !.networkRequests[i] =
                            [r EXCEPT !.status = <<params.status>>,
                                      !.mimeType = <<params.mimeType>>,
                                      !.responseHeaders = <<params.headers>>,
                                      !.timing = <<[requestTime |->
                                                       IF r.timing # Null /\ r.timing[1].requestTime # 0
                                                       THEN r.timing[1].requestTime ELSE r.timestamp,
                                                    responseTime |-> params.timestamp,
                                                    duration |-> params.timestamp - r.timestamp]>>]]>>

\* The permanent 'message' listener: parse, then route by the dialect the
\* session names at the time of the event.  A throw anywhere is caught and logged.
Demux(b, frame, now) ==
    IF frame.kind = "malformed" THEN b
    ELSE IF b.browserType = <<"chrome">> THEN
        CASE frame.method = "Runtime.consoleAPICalled" -> handleConsoleAPICalled(b, frame, now)[2]
          [] frame.method = "Log.entryAdded" -> handleLogEntryAdded(b, frame, now)[2]
          [] frame.method = "Network.requestWillBeSent" -> handleNetworkRequest(b, frame, now)[2]
          [] frame.method = "Network.responseReceived" -> handleNetworkResponse(b, frame)[2]
          [] frame.method = "Runtime.exceptionThrown" -> handleExceptionThrown(b, frame, now)[2]
          [] OTHER -> b
    ELSE IF b.browserType = <<"firefox">> THEN
        CASE frame.type = "consoleAPICall" -> handleFirefoxConsoleAPI(b, frame, now)[2]
          [] frame.type = "pageError" -> handleFirefoxPageError(b, frame, now)[2]
          [] OTHER -> b
    ELSE b

\* ---------------------------------------------------------------- channels
\* new WebSocket(url), made by connectTo<Dialect>Tab for dialect `dialect`:
\*   readyState  the ws library's state of the socket
\*   errored     'error' has been emitted; 'close' follows
\*   promise     the promise connectTo<Dialect>Tab returned for this socket,
\*               which the connect_browser call awaits
\*   open        progress of the async 'open' callback: "idle", "await" (at its
\*               step-th sendCommand, whose id is cmdId), "done" (resolve
\*               called), "rejected" (an await in it rejected; nothing handles that)
\*   once        the ids of the one-shot 'message' listeners, in registration order
\*   sent        the frames written to the channel
\*   awaiting    the ids of the frames written that the browser has not answered
NewSocket(dialect) ==
    [readyState |-> "CONNECTING", errored |-> FALSE, dialect |-> dialect, promise |-> "pending",
     open |-> "idle", step |-> 0, cmdId |-> 0, once |-> <<>>, sent |-> <<>>, awaiting |-> {}]

\* The result a tool call returns: ref is the correlation id the call awaited
\* or the socket it constructed, 0 if none.
Reply(tool, result, value, ref) == [tool |-> tool, result |-> result, value |-> value, ref |-> ref]

Return(st, reply) == [st EXCEPT !.replies = Append(@, reply)]

\* A catch block that keeps the channel handle.
Rollback_keepHandle(b) ==
    [b EXCEPT !.connected = FALSE, !.browserType = Null, !.currentTab = Null]

\* The catch block of connectToBrowser.
Rollback(b) ==
    [b EXCEPT !.connected = FALSE, !.ws = NoSocket, !.browserType = Null, !.currentTab = Null]

\* resolve / reject of the promise of socket s: a promise settles once; the
\* settlement resumes connectToBrowser and the tool handler in the same macrotask.
ResolveConnect(st, s) ==
    IF st.sockets[s].promise = "pending"
    THEN Return([st EXCEPT !.sockets[s].promise = "resolved"],
                Reply("connect_browser", "ok", Null, s))
    ELSE st

RejectConnect(st, s) ==
    IF st.sockets[s].promise = "pending"
    THEN Return([st EXCEPT !.sockets[s].promise = "rejected", !.browser = Rollback(@)],
                Reply("connect_browser", "ChannelError", Null, s))
    ELSE st

\* WebSocket.send(data) by readyState: throws while CONNECTING, writes while
\* OPEN, drops the data silently once CLOSING or CLOSED.  <<threw, sockets'>>
WsSend(socks, s, frame) ==
    CASE socks[s].readyState = "CONNECTING" -> <<TRUE, socks>>
      [] socks[s].readyState = "OPEN" ->
            <<FALSE, [socks EXCEPT ![s].sent = Append(@, frame),
                                   ![s].awaiting = IF frame.id # 0 THEN @ \cup {frame.id} ELSE @]>>
      [] OTHER -> <<FALSE, socks>>

\* sendCommand that looks at the channel handle only.
sendCommand_handleOnly(st, method) ==
    IF st.browser.ws = NoSocket
    THEN [st |-> st, outcome |-> "NotConnected"]
    ELSE LET s == st.browser.ws
             id == st.browser.nextMessageId
             listening == [st.sockets EXCEPT ![s].once = Append(@, id)]
             sent == WsSend(listening, s, [id |-> id, method |-> method, to |-> Null])
         IN  [st |-> [st EXCEPT !.browser.nextMessageId = id + 1, !.sockets = sent[2]],
              outcome |-> IF sent[1] THEN "SendFailed" ELSE "pending"]

\* sendCommand(method): outcome is "pending", or the rejection the promise
\* carries at once.  The id given to the command is st.browser.nextMessageId.
sendCommand(st, method) ==
    IF st.browser.ws = NoSocket \/ ~st.browser.connected
    THEN [st |-> st, outcome |-> "NotConnected"]
    ELSE LET s == st.browser.ws
             id == st.browser.nextMessageId
             listening == [st.sockets EXCEPT ![s].once = Append(@, id)]
             sent == WsSend(listening, s, [id |-> id, method |-> method, to |-> Null])
         IN  [st |-> [st EXCEPT !.browser.nextMessageId = id + 1, !.sockets = sent[2]],
              outcome |-> IF sent[1] THEN "SendFailed" ELSE "pending"]

sendFirefoxCommand(st, type) ==
    IF st.browser.ws = NoSocket \/ ~st.browser.connected
    THEN [st |-> st, outcome |-> "NotConnected"]
    ELSE LET sent == WsSend(st.sockets, st.browser.ws,
                            [id |-> 0, method |-> type, to |-> st.browser.currentTab])
         IN  [st |-> [st EXCEPT !.sockets = sent[2]],
              outcome |-> IF sent[1] THEN "SendFailed" ELSE "resolved"]

\* An await in the 'open' callback of socket s rejected at its k-th command.
OpenRejected(st, s, k) ==
    [st EXCEPT !.sockets[s].open = "rejected", !.sockets[s].step = 0, !.sockets[s].cmdId = 0,
               !.unhandled = TRUE]

\* The 'open' callback of connectToChromeTab from its k-th sendCommand on:
\* it stops at the first await that stays pending; an await that rejects ends
\* the callback with a rejection no one handles.
ChromeOpenFrom(st, s, k) ==
    IF k > Len(ChromeInitCommands)
    THEN ResolveConnect([st EXCEPT !.sockets[s].open = "done", !.sockets[s].step = 0,
                                   !.sockets[s].cmdId = 0], s)
    ELSE LET r == sendCommand(st, ChromeInitCommands[k])
         IN  IF r.outcome = "pending"
             THEN [r.st EXCEPT !.sockets[s].open = "await", !.sockets[s].step = k,
                               !.sockets[s].cmdId = st.browser.nextMessageId]
             ELSE OpenRejected(r.st, s, k)

\* The 'open' callback of connectToFirefoxTab: both sends resolve at once.
FirefoxOpen(st, s) ==
    LET r1 == sendFirefoxCommand(st, FirefoxInitCommands[1])
        r2 == sendFirefoxCommand(r1.st, FirefoxInitCommands[2])
    IN  IF r1.outcome # "resolved" THEN OpenRejected(r1.st, s, 1)
        ELSE IF r2.outcome # "resolved" THEN OpenRejected(r2.st, s, 2)
        ELSE ResolveConnect([r2.st EXCEPT !.sockets[s].open = "done"], s)

\* What the one-shot listener of command `id` does with `frame`.
Settlement(id, frame) ==
    IF frame.kind = "malformed" THEN "DecodeError"
    ELSE IF frame.id = id
         THEN IF frame.error THEN "CommandError" ELSE "resolved"
         ELSE "none"

\* The sockets whose 'open' callback awaits the promise of command `id`.
OpenAwaiting(st, id) ==
    {s \in 1..Len(st.sockets) : st.sockets[s].open = "await" /\ st.sockets[s].cmdId = id}

\* The listener of command `id` run on `frame`, and the continuation of the
\* caller that awaits the promise when the frame settles it.
OnceListener(st, id, frame) ==
    LET how == Settlement(id, frame)
    IN  IF how = "none" THEN st
        ELSE IF id \in st.waiting
             THEN Return([st EXCEPT !.waiting = @ \ {id}],
                         Reply("evaluate_javascript", IF how = "resolved" THEN "ok" ELSE how,
                               IF how = "resolved" THEN ResultOf(frame.id) ELSE Null, id))
        ELSE IF OpenAwaiting(st, id) = {} THEN st
        ELSE LET s == CHOOSE s \in OpenAwaiting(st, id) : TRUE
             IN  IF how = "resolved"
                 THEN ChromeOpenFrom(st, s, st.sockets[s].step + 1)
                 ELSE OpenRejected(st, s, st.sockets[s].step)

RECURSIVE OnceListeners(_, _, _)
OnceListeners(st, listeners, frame) ==
    IF listeners = <<>> THEN st
    ELSE OnceListeners(OnceListener(st, Head(listeners), frame), Tail(listeners), frame)

\* ------------------------------------------------------------------ state
Init ==
    /\ browser = [ws |-> NoSocket, connected |-> FALSE, messages |-> <<>>,
                  networkRequests |-> <<>>, nextMessageId |-> 1,
                  browserType |-> Null, currentTab |-> Null]
    /\ sockets = <<>>
    /\ fetching = <<>>
    /\ waiting = {}
    /\ replies = <<>>
    /\ unhandled = FALSE
    /\ appended = [messages |-> 0, networkRequests |-> 0]
    /\ input = Null

\* ------------------------------------------------------------- tool calls
\* connectToBrowser without its short circuit.
connectToBrowser_always(st, browserType) ==
    [st EXCEPT !.browser.browserType = <<browserType>>,
               !.fetching = Append(@, browserType)]

\* connect_browser up to the discovery fetch.
connectToBrowser(st, browserType) ==
    IF st.browser.connected /\ st.browser.ws # NoSocket
    THEN Return(st, Reply("connect_browser", "already", Null, 0))
    ELSE [st EXCEPT !.browser.browserType = <<browserType>>,
                    !.fetching = Append(@, browserType)]

\* What the discovery document makes of the call: an error kind, or "" .
DiscoveryError(browserType, tabIndex, reachable, ntabs, hasUrl) ==
    LET index == IF tabIndex = Null THEN 0 ELSE tabIndex[1]
    IN  IF ~reachable THEN "EndpointUnreachable"
        ELSE IF ntabs = 0 THEN "NoTargetsAvailable"
        ELSE IF browserType = "firefox" /\ index >= ntabs THEN "TargetIndexOutOfRange"
        ELSE IF browserType = "chrome" /\ tabIndex # Null /\ index >= ntabs
             THEN "TargetIndexOutOfRange"
        ELSE IF browserType = "chrome" /\ ~hasUrl THEN "NoDebuggerUrl"
        ELSE ""

Remove(seq, i) == SubSeq(seq, 1, i - 1) \o SubSeq(seq, i + 1, Len(seq))

\* connectTo<Dialect>Tab of the i-th fetching call, from the end of the fetch
\* to the await of the channel.  tabIndex is the argument of the call: nothing
\* reads it before this point, so it is drawn here.
connectToTab(st, i, tabIndex, reachable, ntabs, hasUrl) ==
    LET browserType == st.fetching[i]
        error == DiscoveryError(browserType, tabIndex, reachable, ntabs, hasUrl)
        index == IF tabIndex = Null THEN 0 ELSE tabIndex[1]
        fetched == [st EXCEPT !.fetching = Remove(@, i)]
    IN  IF error # ""
        THEN Return([fetched EXCEPT !.browser = Rollback(@)],
                    Reply("connect_browser", error, Null, 0))
        ELSE [fetched EXCEPT !.browser.currentTab = <<index>>,
                             !.browser.ws = Len(st.sockets) + 1,
                             !.sockets = Append(@, NewSocket(browserType))]

\* WebSocket.close(): a socket that is connecting or open starts closing.
WsClose(sock) ==
    IF sock.readyState \in {"CONNECTING", "OPEN"} THEN [sock EXCEPT !.readyState = "CLOSING"] ELSE sock

\* A disconnect that resets the session only when it holds a channel handle.
disconnect_browser_handleOnly(st) ==
    LET closed == IF st.browser.ws # NoSocket
                  THEN [st EXCEPT !.sockets[st.browser.ws] = WsClose(@), !.browser.ws = NoSocket,
                                  !.browser.connected = FALSE,
                                  !.browser.browserType = Null,
                                  !.browser.currentTab = Null]
                  ELSE st
    IN  Return(closed, Reply("disconnect_browser", "ok", Null, 0))

\* A disconnect that starts the correlation ids of the next channel at 1 again.
disconnect_browser_resetIds(st) ==
    LET closed == IF st.browser.ws # NoSocket
                  THEN [st EXCEPT !.sockets[st.browser.ws] = WsClose(@), !.browser.ws = NoSocket]
                  ELSE st
    IN  Return([closed EXCEPT !.browser.connected = FALSE,
                              !.browser.browserType = Null,
                              !.browser.currentTab = Null,
                              !.browser.nextMessageId = 1],
               Reply("disconnect_browser", "ok", Null, 0))

disconnect_browser(st) ==
    LET closed == IF st.browser.ws # NoSocket
                  THEN [st EXCEPT !.sockets[st.browser.ws] = WsClose(@), !.browser.ws = NoSocket]
                  ELSE st
    IN  Return([closed EXCEPT !.browser.connected = FALSE,
                              !.browser.browserType = Null,
                              !.browser.currentTab = Null],
               Reply("disconnect_browser", "ok", Null, 0))

\* evaluate_javascript and get_browser_info: one sendCommand, awaited.
evaluate(st, tool) ==
    LET r == sendCommand(st, "Runtime.evaluate")
    IN  IF r.outcome = "pending"
        THEN [r.st EXCEPT !.waiting = @ \cup {st.browser.nextMessageId}]
        ELSE Return(r.st, Reply(tool, r.outcome, Null, 0))

\* String.prototype.toUpperCase on the method and level names in use.
toUpperCase(str) ==
    CASE str = "get" -> "GET"
      [] str = "post" -> "POST"
      [] str = "Post" -> "POST"
      [] str = "log" -> "LOG"
      [] str = "error" -> "ERROR"
      [] str = "info" -> "INFO"
      [] str = "warning" -> "WARNING"
      [] str = "debug" -> "DEBUG"
      [] str = "trace" -> "TRACE"
      [] str = "verbose" -> "VERBOSE"
      [] OTHER -> str

\* A slice that takes the first `limit` elements.
Slice_fromHead(seq, limit) ==
    SubSeq(seq, 1, IF limit < Len(seq) THEN limit ELSE Len(seq))

\* Array.prototype.slice(-limit) for a positive whole limit.
Slice(seq, limit) ==
    LET start == IF Len(seq) - limit > 0 THEN Len(seq) - limit ELSE 0
    IN  SubSeq(seq, start + 1, Len(seq))

\* The line the result text shows for a record: time, upper-cased level and
\* source; time, status or PND, and method.
formatMessage(message) ==
    [time |-> message.timestamp, level |-> toUpperCase(message.level), source |-> message.source]

formatNetworkRequest(request) ==
    [time |-> request.timestamp,
     status |-> IF request.status # Null /\ request.status[1] # 0 THEN request.status ELSE <<"PND">>,
     method |-> request.method]

\* get_console_logs whose clear removes the matching records only.
get_console_logs_clearMatched(st, level, limit, clear) ==
    LET MatchesLevel(m) == m.level = level
        Other(m) == m.level # level
        messages == IF level # "all" THEN SelectSeq(st.browser.messages, MatchesLevel)
                    ELSE st.browser.messages
        limited == Slice(messages, limit)
        cleared == IF clear
                   THEN [st EXCEPT !.browser.messages = IF level # "all" THEN SelectSeq(@, Other) ELSE <<>>]
                   ELSE st
    IN  Return(cleared, Reply("get_console_logs", IF limited = <<>> THEN "none" ELSE "ok",
                              [i \in 1..Len(limited) |-> formatMessage(limited[i])], 0))

\* get_console_logs: level "all" is no filter.
get_console_logs(st, level, limit, clear) ==
    LET MatchesLevel(m) == m.level = level
        messages == IF level # "all" THEN SelectSeq(st.browser.messages, MatchesLevel)
                    ELSE st.browser.messages
        limited == Slice(messages, limit)
        cleared == IF clear THEN [st EXCEPT !.browser.messages = <<>>] ELSE st
    IN  Return(cleared, Reply("get_console_logs", IF limited = <<>> THEN "none" ELSE "ok",
                              [i \in 1..Len(limited) |-> formatMessage(limited[i])], 0))

\* get_network_requests: method "" is no filter.
get_network_requests(st, method, limit, clear) ==
    LET MatchesMethod(r) == toUpperCase(r.method) = toUpperCase(method)
        requests == IF method # "" THEN SelectSeq(st.browser.networkRequests, MatchesMethod)
                    ELSE st.browser.networkRequests
        limited == Slice(requests, limit)
        cleared == IF clear THEN [st EXCEPT !.browser.networkRequests = <<>>] ELSE st
    IN  Return(cleared, Reply("get_network_requests", IF limited = <<>> THEN "none" ELSE "ok",
                              [i \in 1..Len(limited) |-> formatNetworkRequest(limited[i])], 0))

\* clear_logs that forgets the network store.
clear_logs_consoleOnly(st) ==
    Return([st EXCEPT !.browser.messages = <<>>], Reply("clear_logs", "ok", Null, 0))

clear_logs(st) ==
    Return([st EXCEPT !.browser.messages = <<>>, !.browser.networkRequests = <<>>],
           Reply("clear_logs", "ok", Null, 0))

\* --------------------------------------------------------- channel events
WsOnOpenHandler(st, s) ==
    LET opened == [st EXCEPT !.sockets[s].readyState = "OPEN", !.browser.connected = TRUE]
    IN  IF st.sockets[s].dialect = "chrome" THEN ChromeOpenFrom(opened, s, 1)
        ELSE FirefoxOpen(opened, s)

WsOnMessageHandler(st, s, frame, now) ==
    LET listeners == st.sockets[s].once
        routed == [st EXCEPT !.browser = Demux(@, frame, now),
                             !.sockets[s].once = <<>>,
                             !.sockets[s].awaiting = @ \ {frame.id}]
    IN  OnceListeners(routed, listeners, frame)

WsOnErrorHandler(st, s) ==
    RejectConnect([st EXCEPT !.sockets[s].readyState = "CLOSING",
                             !.sockets[s].errored = TRUE,
                             !.browser.connected = FALSE], s)

\* A 'close' handler that opens the next channel to the same dialect.
WsOnCloseHandler_reconnect(st, s) ==
    [st EXCEPT !.sockets = Append([@ EXCEPT ![s].readyState = "CLOSED",
                                            ![s].errored = FALSE,
                                            ![s].once = <<>>,
                                            ![s].sent = <<>>,
                                            ![s].awaiting = {}],
                                  NewSocket(st.sockets[s].dialect)),
               !.browser.connected = FALSE,
               !.browser.ws = Len(st.sockets) + 1]

\* After 'close' the socket emits nothing more: its listeners and what was
\* written to it are dropped with it.
WsOnCloseHandler(st, s) ==
    [st EXCEPT !.sockets[s].readyState = "CLOSED",
               !.sockets[s].errored = FALSE,
               !.sockets[s].once = <<>>,
               !.sockets[s].sent = <<>>,
               !.sockets[s].awaiting = {},
               !.browser.connected = FALSE,
               !.browser.ws = NoSocket]

\* ---------------------------------------------------------------- inputs
Dialects == {"chrome", "firefox"}
TabIndexes == {Null, <<1>>}
Tools == {"evaluate_javascript", "get_browser_info"}
Now == 1     \* Date.now() at every event of the session specifications

\* What the browser behind socket s may write next.  Answers: the response to
\* a command it has not answered yet, or bytes that are no JSON.
AnswerFrames(s) ==
    {ResultFrame(id) : id \in sockets[s].awaiting}
    \cup {ErrorFrame(id) : id \in sockets[s].awaiting}
    \cup {MalformedFrame}

\* Events of the dialect the browser speaks: one that appends a record, one
\* that no handler knows.
EventFrames(s) ==
    IF sockets[s].dialect = "chrome"
    THEN {ChromeConsoleFrame("Runtime.consoleAPICalled", "log", TRUE),
          ChromeConsoleFrame("Runtime.executionContextCreated", "", TRUE)}
    ELSE {FirefoxFrame("consoleAPICall", "log", TRUE),
          FirefoxFrame("tabNavigated", "", TRUE)}

\* Every kind of frame the message listener tells apart: events with a
\* severity of the record type and with one outside it, a payload the builder
\* fails on, a request, the response to it and a response to none, bytes that
\* are no JSON.
RecordFrames(s) ==
    IF sockets[s].dialect = "chrome"
    THEN {ChromeConsoleFrame("Runtime.consoleAPICalled", "log", TRUE),
          ChromeConsoleFrame("Runtime.consoleAPICalled", "trace", TRUE),
          ChromeConsoleFrame("Runtime.consoleAPICalled", "log", FALSE),
          ChromeConsoleFrame("Log.entryAdded", "verbose", TRUE),
          ChromeConsoleFrame("Runtime.exceptionThrown", "", TRUE),
          ChromeRequestFrame("r1", "GET", 0),
          ChromeResponseFrame("r1", 200, 2),
          ChromeResponseFrame("r2", 200, 2),
          MalformedFrame}
    ELSE {FirefoxFrame("consoleAPICall", "log", TRUE),
          FirefoxFrame("consoleAPICall", "exception", TRUE),
          FirefoxFrame("pageError", "", TRUE),
          FirefoxFrame("pageError", "", FALSE),
          MalformedFrame}

\* The network events of a Chrome target: request r1 without a timestamp
\* (the record takes Date.now()) and request r2 with one, each of which the
\* target may send again under the same identifier (a redirect); responses
\* to both, r1 answered with two different statuses and times; a response
\* without its payload; a console event.
NetworkFrames(s) ==
    IF sockets[s].dialect = "chrome"
    THEN {ChromeRequestFrame("r1", "GET", 0),
          ChromeRequestFrame("r2", "POST", 2),
          ChromeResponseFrame("r1", 200, 3),
          ChromeResponseFrame("r1", 404, 5),
          ChromeResponseFrame("r2", 200, 3),
          [ChromeResponseFrame("r1", 200, 3) EXCEPT !.ok = FALSE],
          ChromeConsoleFrame("Runtime.consoleAPICalled", "log", TRUE)}
    ELSE {}

\* ---------------------------------------------------------------- actions
CallConnect ==
    /\ Len(fetching) < MaxFetching
    /\ \E browserType \in Dialects : Install(connectToBrowser(State, browserType))

FetchDone(maxSockets) ==
    \E i \in 1..Len(fetching) :
        \E tabIndex \in TabIndexes, reachable \in BOOLEAN, ntabs \in 0..MaxTabs, hasUrl \in BOOLEAN :
            /\ DiscoveryError(fetching[i], tabIndex, reachable, ntabs, hasUrl) = ""
                  => Len(sockets) < maxSockets
            /\ Install(connectToTab(State, i, tabIndex, reachable, ntabs, hasUrl))

CallDisconnect ==
    \E st \in {disconnect_browser(State)} : Install(st)

CallEvaluate(maxId) ==
    /\ browser.nextMessageId <= maxId
    /\ \E tool \in Tools : Install(evaluate(State, tool))

WsOnOpen ==
    \E s \in 1..Len(sockets) :
        /\ sockets[s].readyState = "CONNECTING"
        /\ Install(WsOnOpenHandler(State, s))

\* A socket emits 'message' from 'open' until 'close' or 'error'.
Receiving(s) ==
    /\ sockets[s].readyState \in {"OPEN", "CLOSING"}
    /\ sockets[s].open # "idle"
    /\ ~sockets[s].errored

WsOnAnswer ==
    \E s \in 1..Len(sockets) :
        /\ Receiving(s)
        /\ \E frame \in AnswerFrames(s) : Install(WsOnMessageHandler(State, s, frame, Now))

WsOnEvent ==
    \E s \in 1..Len(sockets) :
        /\ Receiving(s)
        /\ \E frame \in EventFrames(s) :
              LET st == WsOnMessageHandler(State, s, frame, Now)
              IN  /\ Len(st.browser.messages) <= MaxRecords
                  /\ Len(st.browser.networkRequests) <= MaxRecords
                  /\ Install(st)

WsOnFrame ==
    \E s \in 1..Len(sockets) :
        /\ Receiving(s)
        /\ \E frame \in RecordFrames(s) :
              LET st == WsOnMessageHandler(State, s, frame, Now)
              IN  /\ Len(st.browser.messages) <= MaxRecords
                  /\ Len(st.browser.networkRequests) <= MaxRecords
                  /\ Install([st EXCEPT !.input = <<frame>>])

WsOnNetworkFrame ==
    \E s \in 1..Len(sockets) :
        /\ Receiving(s)
        /\ \E frame \in NetworkFrames(s) :
              LET st == WsOnMessageHandler(State, s, frame, Now)
              IN  /\ Len(st.browser.messages) <= MaxRecords
                  /\ Len(st.browser.networkRequests) <= MaxRequests
                  /\ Install([st EXCEPT !.input = <<frame>>])

WsOnError ==
    \E s \in 1..Len(sockets) :
        /\ ~sockets[s].errored
        /\ \/ sockets[s].readyState \in {"CONNECTING", "OPEN"}
           \/ sockets[s].readyState = "CLOSING" /\ sockets[s].open = "idle"
        /\ Install(WsOnErrorHandler(State, s))

WsOnClose ==
    \E s \in 1..Len(sockets) :
        /\ sockets[s].readyState # "CLOSED"
        /\ sockets[s].errored \/ sockets[s].open # "idle"
        /\ Install(WsOnCloseHandler(State, s))

\* The stores alone, at their real capacity: records are appended to one
\* store, numbered in the order of their arrival by their timestamp.
AppendMessage ==
    /\ browser.networkRequests = <<>>
    /\ appended.messages < MaxAppends
    /\ browser' = handleConsoleAPICalled(browser,
                      ChromeConsoleFrame("Runtime.consoleAPICalled", "log", TRUE),
                      appended.messages + 1)[2]
    /\ appended' = [appended EXCEPT !.messages = @ + 1]
    /\ UNCHANGED <<sockets, fetching, waiting, replies, unhandled, input>>

AppendNetworkRequest ==
    /\ browser.messages = <<>>
    /\ appended.networkRequests < MaxAppends
    /\ browser' = handleNetworkRequest(browser,
                      ChromeRequestFrame("r", "GET", appended.networkRequests + 1), Now)[2]
    /\ appended' = [appended EXCEPT !.networkRequests = @ + 1]
    /\ UNCHANGED <<sockets, fetching, waiting, replies, unhandled, input>>

\* Queries against stores filled by Chrome events, the records numbered by
\* their timestamp in the order of their arrival.
Levels == {"log", "error", "info"}
LevelFilters == Levels \cup {"all"}
Methods == {"GET", "post"}
MethodFilters == {"get", "POST", ""}
Query(tool, filter, limit, clear) == <<[tool |-> tool, filter |-> filter, limit |-> limit, clear |-> clear]>>

LogMessage ==
    /\ browser.networkRequests = <<>> /\ appended.networkRequests = 0
    /\ appended.messages < MaxLogged
    /\ \E level \in Levels :
          browser' = handleConsoleAPICalled(browser,
                        ChromeConsoleFrame("Runtime.consoleAPICalled", level, TRUE),
                        appended.messages + 1)[2]
    /\ appended' = [appended EXCEPT !.messages = @ + 1]
    /\ replies' = <<>> /\ input' = Null
    /\ UNCHANGED <<sockets, fetching, waiting, unhandled>>

LogRequest ==
    /\ browser.messages = <<>> /\ appended.messages = 0
    /\ appended.networkRequests < MaxLogged
    /\ \E method \in Methods :
          browser' = handleNetworkRequest(browser,
                        ChromeRequestFrame("r", method, appended.networkRequests + 1), Now)[2]
    /\ appended' = [appended EXCEPT !.networkRequests = @ + 1]
    /\ replies' = <<>> /\ input' = Null
    /\ UNCHANGED <<sockets, fetching, waiting, unhandled>>

CallGetConsoleLogs ==
    \E level \in LevelFilters, limit \in 1..MaxLimit, clear \in BOOLEAN :
        Install([get_console_logs(State, level, limit, clear)
                    EXCEPT !.input = Query("get_console_logs", level, limit, clear)])

CallGetNetworkRequests ==
    \E method \in MethodFilters, limit \in 1..MaxLimit, clear \in BOOLEAN :
        Install([get_network_requests(State, method, limit, clear)
                    EXCEPT !.input = Query("get_network_requests", method, limit, clear)])

CallClearLogs ==
    \E st \in {clear_logs(State)} : Install(st)

\* ---------------------------------------------------------- specifications
\* The session: every tool call and every channel event, one channel.
Next ==
    \/ CallConnect
    \/ FetchDone(MaxSockets)
    \/ CallDisconnect
    \/ CallEvaluate(MaxId)
    \/ WsOnOpen
    \/ WsOnAnswer
    \/ WsOnError
    \/ WsOnClose

Spec == Init /\ [][Next]_vars

\* The session with a second channel: reconnects and overlapping connects.
NextOverlap ==
    \/ CallConnect
    \/ FetchDone(MoreSockets)
    \/ CallDisconnect
    \/ CallEvaluate(MaxId)
    \/ WsOnOpen
    \/ WsOnAnswer
    \/ WsOnError
    \/ WsOnClose

SpecOverlap == Init /\ [][NextOverlap]_vars

\* Commands and events on a channel that stays up.
NextCmd ==
    \/ CallConnect
    \/ FetchDone(MaxSockets)
    \/ CallEvaluate(MaxCmdId)
    \/ WsOnOpen
    \/ WsOnAnswer
    \/ WsOnEvent

SpecCmd == Init /\ [][NextCmd]_vars

\* The record stores filled past their capacity.
NextStore ==
    \/ AppendMessage
    \/ AppendNetworkRequest

SpecStore == Init /\ [][NextStore]_vars

\* The queries and the clear against stores that events fill.
NextQuery ==
    \/ LogMessage
    \/ LogRequest
    \/ CallGetConsoleLogs
    \/ CallGetNetworkRequests
    \/ CallClearLogs

SpecQuery == Init /\ [][NextQuery]_vars

\* A session that receives every kind of frame, with the clear of the stores.
NextEvents ==
    \/ CallConnect
    \/ FetchDone(MaxSockets)
    \/ CallDisconnect
    \/ WsOnOpen
    \/ WsOnAnswer
    \/ WsOnFrame
    \/ CallClearLogs

SpecEvents == Init /\ [][NextEvents]_vars

\* A session whose channel delivers network events, with the disconnect,
\* the clear of the stores and every channel event.
NextNetwork ==
    \/ CallConnect
    \/ FetchDone(MaxSockets)
    \/ CallDisconnect
    \/ WsOnOpen
    \/ WsOnAnswer
    \/ WsOnNetworkFrame
    \/ WsOnError
    \/ WsOnClose
    \/ CallClearLogs

SpecNetwork == Init /\ [][NextNetwork]_vars

\* ------------------------------------------------------------------ claims
\* The records a store holds after n appends numbered 1..n by timestamp:
\* the last min(n, capacity) of them, oldest first.
Retained(store, n) ==
    /\ Len(store) = Min(n, maxMessages)
    /\ \A i \in 1..Len(store) : store[i].timestamp = n - Len(store) + i

\* C3: after N appends to an empty store, each store holds min(N, 1000)
\* records, namely the last min(N, 1000) appended, in the order of their
\* arrival, and its length never exceeds the capacity.
C3_BoundedStores ==
    /\ Retained(browser.messages, appended.messages)
    /\ Retained(browser.networkRequests, appended.networkRequests)
    /\ Len(browser.messages) <= maxMessages
    /\ Len(browser.networkRequests) <= maxMessages

\* C3 witness: the message store is full and has already dropped a record.
C3_Witness ==
    /\ appended.messages > maxMessages
    /\ Len(browser.messages) = maxMessages
    /\ browser.messages[1].timestamp = appended.messages - maxMessages + 1

\* The step delivers the response frame of command k: the browser had not
\* answered k before the step and has after it, on a channel still up.
Answered(k) ==
    \E s \in 1..Len(sockets) :
        /\ k \in sockets[s].awaiting
        /\ Len(sockets') >= s
        /\ sockets'[s].readyState # "CLOSED"
        /\ k \notin sockets'[s].awaiting

\* The step hands the tool call that awaits command k its own outcome: the
\* result of the frame with id k, or a CommandError.
SettledWithOwn(k) ==
    /\ k \notin waiting'
    /\ \E i \in 1..Len(replies') :
          /\ replies'[i].tool = "evaluate_javascript"
          /\ replies'[i].ref = k
          /\ \/ replies'[i].result = "ok" /\ replies'[i].value = ResultOf(k)
             \/ replies'[i].result = "CommandError"

\* Command k still has its one-shot listener on the channel it was sent on.
Listening(socks, k) ==
    \E s \in 1..Len(socks) : \E i \in 1..Len(socks[s].once) : socks[s].once[i] = k

\* C1: when two sendCommand calls are pending at the same time, each one
\* settles with the result of the frame that carries its own id, in whichever
\* order the two responses arrive: the response that arrives first settles
\* its own command and leaves the other command listening for its own.
C1_EachPendingGetsOwnResponse ==
    [][\A k, j \in waiting :
          (k # j /\ Listening(sockets, k) /\ Listening(sockets, j) /\ Answered(k))
             => (SettledWithOwn(k) /\ j \in waiting' /\ Listening(sockets', j))]_vars

\* C1 case: two commands are pending on the channel and the browser has
\* answered neither.
C1_TwoPending ==
    \E s \in 1..Len(sockets) :
        /\ Cardinality(waiting) >= 2
        /\ waiting \subseteq sockets[s].awaiting

\* C2: no response is lost.  Whatever frames arrive between the send of a
\* command and its own response (events, responses of other commands), the
\* arrival of the response settles the command: the tool call gets the result
\* or a CommandError, the handshake proceeds to its next command.
C2_NoResponseLost ==
    [][\A k \in 1..MaxCmdId :
          Answered(k) =>
             /\ k \in waiting => SettledWithOwn(k)
             /\ \A s \in OpenAwaiting(State, k) :
                   ~(sockets'[s].open = "await" /\ sockets'[s].cmdId = k)]_vars

\* C2 case: a command is pending, unanswered, and its one-shot listener is
\* gone from the channel because another frame arrived first.
C2_ListenerConsumed ==
    \E s \in 1..Len(sockets) :
        \E k \in sockets[s].awaiting :
            /\ k \in waiting \/ (sockets[s].open = "await" /\ sockets[s].cmdId = k)
            /\ \A i \in 1..Len(sockets[s].once) : sockets[s].once[i] # k

\* The results the latest macrotask returned for one tool.
RepliesOf(reps, tool) == {reps[i] : i \in {j \in 1..Len(reps) : reps[j].tool = tool}}

EvaluateReplies(reps) == UNION {RepliesOf(reps, tool) : tool \in Tools}

\* The guard of sendCommand fails: no channel handle, or the flag is down.
NotConnected == browser.ws = NoSocket \/ ~browser.connected

\* C4: a command, evaluate or getBrowserInfo request made while the channel
\* handle is absent or the session is not connected fails at once with
\* NotConnected: no frame is written, no listener is registered, and the
\* session state, correlation counter included, is unchanged.
C4_NotConnectedFailsFast ==
    [][NotConnected =>
          /\ waiting' \subseteq waiting
          /\ \A r \in EvaluateReplies(replies') :
                r.ref = 0 =>
                   /\ r.result = "NotConnected"
                   /\ UNCHANGED <<browser, sockets, fetching, waiting>>]_vars

\* C4 case: an evaluate request was refused while a channel handle is held
\* and the flag is down.
C4_Refused ==
    /\ browser.ws # NoSocket
    /\ ~browser.connected
    /\ \E r \in EvaluateReplies(replies) : r.result = "NotConnected"

\* C5: a connect request made while the session is already connected returns
\* success, constructs no second channel and starts no discovery, and leaves
\* handle, flag, dialect, target and correlation counter unchanged, whatever
\* its arguments.
C5_ConnectWhileConnected ==
    [][/\ (browser.connected /\ browser.ws # NoSocket) => Len(fetching') <= Len(fetching)
       /\ \A r \in RepliesOf(replies', "connect_browser") :
             r.result = "already" =>
                /\ browser.connected /\ browser.ws # NoSocket
                /\ UNCHANGED <<browser, sockets, fetching, waiting>>]_vars

\* C5 case: a connect request was answered "already connected" on a session
\* whose handshake is complete.
C5_ShortCircuited ==
    /\ \E r \in RepliesOf(replies, "connect_browser") : r.result = "already"
    /\ browser.ws # NoSocket
    /\ sockets[browser.ws].promise = "resolved"

DiscoveryErrors ==
    {"EndpointUnreachable", "NoTargetsAvailable", "TargetIndexOutOfRange", "NoDebuggerUrl"}

RolledBack(b) ==
    /\ ~b.connected
    /\ b.ws = NoSocket
    /\ b.browserType = Null
    /\ b.currentTab = Null

\* C6: every connect that fails (discovery endpoint unreachable, empty
\* target list, index beyond the list, channel error before open) ends with
\* the session rolled back: flag down, handle, dialect and target absent, so
\* that the next connect is not short-circuited; a discovery failure
\* constructs no channel.
C6_FailedConnectRollsBack ==
    [][\A r \in RepliesOf(replies', "connect_browser") :
          /\ r.result \notin {"ok", "already"} => RolledBack(browser')
          /\ r.result \in DiscoveryErrors => sockets' = sockets]_vars

\* C6 case: a connect failed on a channel error before the channel opened.
C6_ChannelErrorBeforeOpen ==
    \E r \in RepliesOf(replies, "connect_browser") :
        /\ r.result = "ChannelError"
        /\ sockets[r.ref].open = "idle"

\* The step is an explicit disconnect request.
DisconnectStep == RepliesOf(replies', "disconnect_browser") # {}

\* The step is the 'close' or the 'error' event of socket s.
ChannelEvent(s) ==
    \/ sockets[s].readyState # "CLOSED" /\ sockets'[s].readyState = "CLOSED"
    \/ ~sockets[s].errored /\ sockets'[s].errored

\* C7: once a connect has completed successfully, the session leaves the
\* Connected state only through an explicit disconnect or through a close or
\* error event of the channel it owns: no event of a channel released or
\* superseded earlier and no rollback of another connect attempt changes the
\* connected flag or the channel handle.
C7_OnlyOwnChannelEndsSession ==
    [][\A s \in 1..Len(sockets) :
          (/\ browser.connected /\ browser.ws = s
           /\ sockets[s].promise = "resolved" /\ sockets[s].readyState = "OPEN"
           /\ ~browser'.connected \/ browser'.ws # s)
             => (DisconnectStep \/ ChannelEvent(s))]_vars

\* C7 case: the session is connected on its second channel while the first
\* one, released by a disconnect, has not reported close yet.
C7_ReleasedChannelStillClosing ==
    /\ Len(sockets) = 2
    /\ sockets[1].readyState = "CLOSING"
    /\ browser.connected /\ browser.ws = 2
    /\ sockets[2].promise = "resolved" /\ sockets[2].readyState = "OPEN"

\* C8: when the channel of the session reports close, the session becomes
\* disconnected and the handle is released, and no channel is constructed
\* from then on except by a connect request: the close constructs none, and
\* every channel constructed is constructed by the connect call whose
\* discovery just ended.
C8_CloseReleasesNoReconnect ==
    [][/\ \A s \in 1..Len(sockets) :
             (sockets[s].readyState # "CLOSED" /\ sockets'[s].readyState = "CLOSED")
                => /\ ~browser'.connected
                   /\ browser'.ws = NoSocket
                   /\ Len(sockets') = Len(sockets)
                   /\ fetching' = fetching
       /\ Len(sockets') > Len(sockets)
             => /\ Len(sockets') = Len(sockets) + 1
                /\ Len(fetching') = Len(fetching) - 1]_vars

\* C8 case: the channel of an established session has reported close, and a
\* later connect request has constructed the next channel.
C8_ClosedThenReconnected ==
    /\ Len(sockets) = 2
    /\ sockets[1].readyState = "CLOSED" /\ sockets[1].promise = "resolved"
    /\ browser.ws = 2

\* The initialization frames written to a channel, in the order written.
IsInitFrame(frame) ==
    \/ \E i \in 1..Len(ChromeInitCommands) : frame.method = ChromeInitCommands[i]
    \/ \E i \in 1..Len(FirefoxInitCommands) : frame.method = FirefoxInitCommands[i]

InitFrames(sock) == SelectSeq(sock.sent, IsInitFrame)

\* The channel is open, its 'open' callback ran to the end, and the commands
\* of its dialect were written in order and acknowledged.
InitComplete(sock) ==
    LET init == InitFrames(sock)
        cmds == IF sock.dialect = "chrome" THEN ChromeInitCommands ELSE FirefoxInitCommands
    IN  /\ sock.open = "done"
        /\ Len(init) = Len(cmds)
        /\ \A i \in 1..Len(init) : init[i].method = cmds[i] /\ init[i].id \notin sock.awaiting

\* Every initialization command but the last written has been acknowledged.
InitInOrder(sock) ==
    LET init == InitFrames(sock)
    IN  \A i \in 1..Len(init) : i < Len(init) => init[i].id \notin sock.awaiting

\* C9: connect reports success only after the channel has reported open and
\* every initialization command of the dialect has completed: Chrome's four
\* commands in order, each after the acknowledgement of the previous one, and
\* success after the fourth acknowledgement; Firefox's two subscriptions
\* dispatched.  Both success results of connect are covered: the one of the
\* call that built the channel and the "already connected" one.
C9_SuccessOnlyAfterInit ==
    [][/\ \A r \in RepliesOf(replies', "connect_browser") :
             /\ r.result = "ok" => InitComplete(sockets'[r.ref])
             /\ r.result = "already" => InitComplete(sockets[browser.ws])
       /\ \A s \in 1..Len(sockets') : InitInOrder(sockets'[s])]_vars

\* C9 case: the handshake of a Chrome channel is under way, an
\* initialization command written and not acknowledged.
C9_HandshakeUnderWay ==
    \E s \in 1..Len(sockets) :
        /\ sockets[s].open = "await"
        /\ sockets[s].cmdId \in sockets[s].awaiting
        /\ browser.ws = s

\* C10: no failure other than a decode error becomes an unhandled fault, and
\* a handshake whose initialization command fails (error frame, or
\* NotConnected because the channel went away) completes the connect with a
\* failure result and rolls the session back.
C10_HandshakeFailureReported ==
    [][/\ ~unhandled'
       /\ \A s \in 1..Len(sockets) :
             (sockets[s].open = "await" /\ sockets'[s].open # "await"
              /\ sockets'[s].open # "done" /\ sockets'[s].readyState # "CLOSED")
                => /\ sockets'[s].promise = "rejected"
                   /\ RolledBack(browser')
                   /\ \E r \in RepliesOf(replies', "connect_browser") :
                         r.ref = s /\ r.result \notin {"ok", "already"}]_vars

\* C10 case: the 'open' callback of a channel ended on a rejected
\* initialization command while the connect call still awaits the channel.
C10_ConnectLeftPending ==
    \E s \in 1..Len(sockets) :
        /\ sockets[s].open = "rejected"
        /\ sockets[s].promise = "pending"
        /\ unhandled

\* The positions of the records of `store` that satisfy Match, in order.
Matching(store, Match(_)) == {i \in 1..Len(store) : Match(store[i])}

\* `result` is exactly the last min(limit, number of matching records)
\* matching records of `store`, oldest first, each shown by Show.
IsLastMatching(result, store, Match(_), limit, Show(_)) ==
    LET hits == Matching(store, Match)
        n == Cardinality(hits)
        \* the k-th matching position counted from the oldest
        Nth(k) == CHOOSE i \in hits : Cardinality({j \in hits : j <= i}) = k
    IN  /\ Len(result) = Min(limit, n)
        /\ \A k \in 1..Len(result) : result[k] = Show(store[Nth(n - Len(result) + k)])

\* The query the step ran, if it ran one.
QueryStep(tool) == input' # Null /\ input'[1].tool = tool

\* C11: for every store content, every filter (a severity; a method compared
\* without regard to case; none) and every positive limit, queryConsole and
\* queryNetwork return exactly the last min(limit, number of matching
\* records) matching records, in the order in which they were appended.
C11_QueryReturnsLastMatching ==
    [][/\ QueryStep("get_console_logs") =>
             LET q == input'[1]
                 Match(m) == q.filter = "all" \/ m.level = q.filter
             IN  /\ Len(replies') = 1
                 /\ IsLastMatching(replies'[1].value, browser.messages, Match, q.limit,
                                    formatMessage)
       /\ QueryStep("get_network_requests") =>
             LET q == input'[1]
                 Match(r) == \/ q.filter = ""
                             \/ r.method \in {"GET", "get"} /\ q.filter \in {"GET", "get"}
                             \/ r.method \in {"POST", "post"} /\ q.filter \in {"POST", "post"}
             IN  /\ Len(replies') = 1
                 /\ IsLastMatching(replies'[1].value, browser.networkRequests, Match, q.limit,
                                    formatNetworkRequest)]_vars

\* C11 case: severity error with limit 2 on a store with three errors among
\* other records returned the last two errors.
C11_LastTwoErrors ==
    /\ input = Query("get_console_logs", "error", 2, FALSE)
    /\ Cardinality(Matching(browser.messages, LAMBDA m : m.level = "error")) = 3
    /\ Len(browser.messages) = 5
    /\ Len(replies) = 1 /\ Len(replies[1].value) = 2
    /\ replies[1].value[2].time = browser.messages[5].timestamp

\* C12: a query with clear set empties the whole queried sequence, records
\* that did not match and records beyond the limit included, in the very step
\* that takes the snapshot it returns: the result is computed from the store
\* as it was before the step, nothing is appended within the step, and the
\* other store is untouched; a query without clear leaves both stores alone.
C12_SnapshotAndClearInOneStep ==
    [][/\ QueryStep("get_console_logs") =>
             /\ browser'.messages = IF input'[1].clear THEN <<>> ELSE browser.messages
             /\ browser'.networkRequests = browser.networkRequests
             /\ appended' = appended
             /\ \A k \in 1..Len(replies'[1].value) :
                   \E i \in 1..Len(browser.messages) :
                       replies'[1].value[k] = formatMessage(browser.messages[i])
       /\ QueryStep("get_network_requests") =>
             /\ browser'.networkRequests = IF input'[1].clear THEN <<>> ELSE browser.networkRequests
             /\ browser'.messages = browser.messages
             /\ appended' = appended
             /\ \A k \in 1..Len(replies'[1].value) :
                   \E i \in 1..Len(browser.networkRequests) :
                       replies'[1].value[k] = formatNetworkRequest(browser.networkRequests[i])]_vars

\* C12 case: a console query for errors with limit 1 and clear returned one
\* record and left the store empty after all the records were appended.
C12_ClearedBeyondResult ==
    /\ input = Query("get_console_logs", "error", 1, TRUE)
    /\ appended.messages = MaxLogged
    /\ browser.messages = <<>>
    /\ Len(replies) = 1 /\ Len(replies[1].value) = 1

\* C13: clearAll empties the console store and the network store in every
\* session state (disconnected, connecting, connected) and changes nothing
\* else of the session.
C13_ClearAllEmptiesBoth ==
    [][RepliesOf(replies', "clear_logs") # {} =>
          /\ browser' = [browser EXCEPT !.messages = <<>>, !.networkRequests = <<>>]
          /\ UNCHANGED <<sockets, fetching, waiting>>
          /\ ~unhandled']_vars

\* C13 case: the stores were cleared in the middle of a Chrome handshake.
C13_ClearedWhileConnecting ==
    /\ RepliesOf(replies, "clear_logs") # {}
    /\ browser.messages = <<>> /\ browser.networkRequests = <<>>
    /\ \E s \in 1..Len(sockets) : sockets[s].open = "await" /\ sockets[s].step > 1

\* The step delivered a frame that satisfies Is.
FrameStep(Is(_)) == input' # Null /\ Is(input'[1])

IsResponseReceived(frame) ==
    /\ "method" \in DOMAIN frame
    /\ frame.method = "Network.responseReceived"

\* C14: a response-received event whose request identifier matches no
\* record in the network store (never seen, or cleared) creates no record,
\* raises no fault and leaves both stores unchanged.
C14_UnmatchedResponseIgnored ==
    [][(/\ FrameStep(IsResponseReceived)
        /\ FindRequest(browser.networkRequests, input'[1].requestId) = 0)
          => /\ browser'.networkRequests = browser.networkRequests
             /\ browser'.messages = browser.messages
             /\ ~handleNetworkResponse(browser, input'[1])[1]
             /\ ~unhandled']_vars

\* C14 case: a Chrome session whose store holds request r1 received the
\* response to r2.
C14_ResponseToUnknownRequest ==
    /\ input = <<ChromeResponseFrame("r2", 200, 2)>>
    /\ browser.browserType = <<"chrome">>
    /\ Len(browser.networkRequests) = 1
    /\ browser.networkRequests[1].requestId = "r1"
    /\ browser.networkRequests[1].status = Null

\* Command k was written to a channel that an explicit disconnect has
\* released since: the channel is closing without having reported an error,
\* or has closed.
Disconnected(k) ==
    \E s \in 1..Len(sockets) :
        /\ \E i \in 1..Len(sockets[s].sent) : sockets[s].sent[i].id = k
        /\ sockets[s].readyState = "CLOSING"
        /\ ~sockets[s].errored

\* C15: an explicit disconnect issued while commands are pending raises no
\* fault and settles none of them, and each of them stays unresolved for ever
\* afterwards: nothing that happens after the disconnect resolves or rejects it.
C15_PendingStayUnresolved ==
    [][/\ DisconnectStep =>
             /\ waiting' = waiting
             /\ EvaluateReplies(replies') = {}
             /\ ~unhandled'
       /\ \A k \in waiting : Disconnected(k) => k \in waiting']_vars

\* C15 case: a command is pending on a channel the session has disconnected
\* from, its listener still registered and its response not yet arrived.
C15_PendingAtDisconnect ==
    \E k \in waiting :
        /\ Disconnected(k)
        /\ Listening(sockets, k)
        /\ RepliesOf(replies, "disconnect_browser") # {}

\* Bytes that are no JSON, or an event whose payload the record builder
\* fails on.
IsUndecodable(frame) ==
    /\ "kind" \in DOMAIN frame
    /\ frame.kind = "malformed" \/ ~frame.ok

\* C16: a frame that cannot be decoded as JSON, or whose payload makes a
\* record builder fail, is discarded: the channel is not terminated, the
\* session stays connected, both stores are unchanged, nothing fails, and the
\* channel goes on processing frames as before (an unfinished handshake is
\* still waiting for its acknowledgement).
C16_UndecodableFrameDiscarded ==
    [][FrameStep(IsUndecodable) =>
          /\ browser' = browser
          /\ \A s \in 1..Len(sockets) :
                /\ sockets'[s].readyState = sockets[s].readyState
                /\ sockets'[s].open = sockets[s].open
                /\ sockets'[s].promise = sockets[s].promise
          /\ replies' = <<>>
          /\ ~unhandled']_vars

\* C16 case: an established session with a record in its store received
\* bytes that are no JSON.
C16_MalformedWhileConnected ==
    /\ input = <<MalformedFrame>>
    /\ browser.connected /\ browser.ws # NoSocket
    /\ sockets[browser.ws].open = "done"
    /\ browser.messages # <<>>

\* C17: a decode error is never surfaced to a caller: a malformed frame that
\* arrives while a command is pending does not make the command fail; the
\* command leaves the pending set only when the frame with its id arrives,
\* and no operation returns a decode error.
C17_DecodeErrorNotSurfaced ==
    [][/\ \A k \in waiting : k \notin waiting' => Answered(k)
       /\ \A i \in 1..Len(replies') : replies'[i].result # "DecodeError"]_vars

\* C17 case: a tool call has just been failed with the decode error of a
\* frame while the response to its command is still outstanding.
C17_FailedOnMalformedFrame ==
    \E r \in EvaluateReplies(replies) :
        /\ r.result = "DecodeError"
        /\ \E s \in 1..Len(sockets) : r.ref \in sockets[s].awaiting

\* The severities of the console record type.
Severities == {"log", "error", "warning", "info", "debug"}

\* C18: in every reachable state every record of the console store has a
\* severity among log, error, warning, info, debug, whatever type or level
\* strings the console-API, log-entry and Firefox console frames carry.
C18_SeverityInRange ==
    \A i \in 1..Len(browser.messages) : browser.messages[i].level \in Severities

\* C18 case: the latest frame was a console event and its record is in the
\* store, its severity taken from the frame.
C18_StoredFrameSeverity ==
    /\ input # Null
    /\ "level" \in DOMAIN input[1]
    /\ input[1].level # ""
    /\ browser.messages # <<>>
    /\ browser.messages[Len(browser.messages)].level = input[1].level

\* The channels whose callbacks are armed: constructed, neither released by
\* the session nor ended by an error or a close.
Live(socks) == {s \in 1..Len(socks) : socks[s].readyState \in {"CONNECTING", "OPEN"}}

\* C19: at most one channel is live at any time, also when connect requests
\* overlap: a connect request made while an earlier one is still in progress
\* constructs no second channel.
C19_AtMostOneLiveChannel ==
    Cardinality(Live(sockets)) <= 1

\* C19 case: a connect request is in its discovery while the channel of an
\* earlier request has not opened yet.
C19_OverlappingConnects ==
    /\ fetching # <<>>
    /\ \E s \in Live(sockets) : sockets[s].readyState = "CONNECTING" /\ browser.ws = s

\* The latest macrotask returned from an explicit disconnect or from a
\* connect that failed and was rolled back.
JustDisconnected ==
    \/ RepliesOf(replies, "disconnect_browser") # {}
    \/ \E r \in RepliesOf(replies, "connect_browser") : r.result \notin {"ok", "already"}

\* C20: in every reachable state, a session marked connected has its channel
\* handle, its dialect and its target set; and a session that an explicit
\* disconnect or a rolled-back connect has just left disconnected has no
\* channel handle.
C20_ConnectedHasHandle ==
    /\ browser.connected =>
          /\ browser.ws # NoSocket
          /\ browser.browserType # Null
          /\ browser.currentTab # Null
    /\ JustDisconnected => (~browser.connected /\ browser.ws = NoSocket)

\* C20 case: a channel is waiting for 'open' while the session has been
\* rolled back by the failure of another connect request.
C20_RolledBackWhileOpening ==
    /\ \E s \in 1..Len(sockets) : sockets[s].readyState = "CONNECTING"
    /\ browser.ws = NoSocket
    /\ \E r \in RepliesOf(replies, "connect_browser") : r.result \in DiscoveryErrors

\* A connect attempt is in progress: a connect call awaits the discovery
\* document, or the channel it constructed has not finished its handshake
\* (the 'open' callback has not run, or awaits an acknowledgement).
ConnectInProgress ==
    \/ fetching # <<>>
    \/ \E s \in 1..Len(sockets) :
          /\ sockets[s].promise = "pending"
          /\ sockets[s].open \in {"idle", "await"}
          /\ sockets[s].readyState \in {"CONNECTING", "OPEN"}

\* C21: while a connect attempt is in progress, from the start of discovery
\* until the last initialization command is acknowledged, the session is not
\* connected: no evaluate or getBrowserInfo request made in that interval is
\* accepted (none is left awaiting a response), each fails with NotConnected
\* and writes no frame, also after the channel has reported open.
C21_NotConnectedWhileConnecting ==
    [][ConnectInProgress =>
          /\ waiting' \subseteq waiting
          /\ \A r \in EvaluateReplies(replies') :
                r.ref = 0 => (r.result = "NotConnected" /\ sockets' = sockets)]_vars

\* C21 case: an evaluate request made after 'open' and before the last
\* acknowledgement of the handshake was written to the channel and awaits
\* its response.
C21_EvaluateDuringHandshake ==
    \E s \in 1..Len(sockets) :
        /\ sockets[s].open = "await"
        /\ sockets[s].promise = "pending"
        /\ \E k \in waiting :
              /\ k \in sockets[s].awaiting
              /\ \E i \in 1..Len(sockets[s].sent) :
                    sockets[s].sent[i].id = k /\ sockets[s].sent[i].method = "Runtime.evaluate"

\* The frames the step wrote to socket s, in the order written.
Written(s) ==
    IF s <= Len(sockets)
    THEN SubSeq(sockets'[s].sent, Len(sockets[s].sent) + 1, Len(sockets'[s].sent))
    ELSE sockets'[s].sent

\* Every command a channel still remembers carries an id the counter has passed.
IdsBelowCounter(b, socks) ==
    \A s \in 1..Len(socks) : \A i \in 1..Len(socks[s].sent) : socks[s].sent[i].id < b.nextMessageId

\* C22: the correlation-id counter never decreases and is never reset by any
\* operation (disconnect, channel close, failed connect, reconnect); every
\* command written to a channel carries an id that is at least the counter
\* before the step and below the counter after it, hence strictly greater
\* than the id of every command written before, and no two commands share an
\* id; a Firefox send carries no id and leaves the counter where it was.
C22_IdsStrictlyIncrease ==
    [][/\ browser'.nextMessageId >= browser.nextMessageId
       /\ IdsBelowCounter(browser, sockets) /\ IdsBelowCounter(browser', sockets')
       /\ \A s \in 1..Len(sockets') :
             LET new == Written(s)
             IN  /\ \A i \in 1..Len(new) :
                       /\ new[i].id # 0 =>
                             /\ new[i].id >= browser.nextMessageId
                             /\ new[i].id < browser'.nextMessageId
                       /\ new[i].id = 0 =>
                             /\ \E k \in 1..Len(FirefoxInitCommands) :
                                   new[i].method = FirefoxInitCommands[k]
                             /\ browser'.nextMessageId = browser.nextMessageId
                 /\ \A i, j \in 1..Len(new) : i < j => new[i].id < new[j].id \/ new[j].id = 0
                 /\ \A t \in 1..Len(sockets') :
                       t # s => \A i \in 1..Len(new), j \in 1..Len(Written(t)) :
                                   new[i].id # Written(t)[j].id \/ new[i].id = 0]_vars

\* C22 case: the first channel completed its four-command handshake and has
\* closed, and the handshake of the second channel has written its first
\* command, with id 5.
C22_IdsAcrossReconnect ==
    /\ Len(sockets) = 2
    /\ sockets[1].readyState = "CLOSED"
    /\ sockets[1].promise = "resolved"
    /\ sockets[2].sent # <<>>
    /\ sockets[2].sent[1].id = Len(ChromeInitCommands) + 1

\* The response fields of a network record are absent.
Partial(r) ==
    /\ r.status = Null
    /\ r.mimeType = Null
    /\ r.responseHeaders = Null
    /\ r.timing = Null

\* C23: a response-received event of the active Chrome dialect whose request
\* identifier X matches a stored network record sets status, mime type,
\* response headers and timing (request time, response time, duration =
\* response time - request time) of the oldest stored record created by a
\* request-start event with identifier X, and leaves its request fields, every
\* other record, the length and the order of the network store and the whole
\* console store unchanged; a record stays partial through every step that
\* is not a response-received event with its identifier.
C23_ResponseSetsFields ==
    [][/\ (/\ FrameStep(IsResponseReceived)
           /\ input'[1].ok
           /\ browser.browserType = <<"chrome">>
           /\ FindRequest(browser.networkRequests, input'[1].requestId) # 0)
             => LET params == input'[1]
                    i == FindRequest(browser.networkRequests, params.requestId)
                    old == browser.networkRequests[i]
                    new == browser'.networkRequests[i]
                IN  /\ Len(browser'.networkRequests) = Len(browser.networkRequests)
                    /\ \A j \in 1..Len(browser.networkRequests) :
                          j # i => browser'.networkRequests[j] = browser.networkRequests[j]
                    /\ old.requestId = params.requestId
                    /\ new.requestId = old.requestId
                    /\ new.method = old.method
                    /\ new.timestamp = old.timestamp
                    /\ new.status = <<params.status>>
                    /\ new.mimeType = <<params.mimeType>>
                    /\ new.responseHeaders = <<params.headers>>
                    /\ new.timing # Null
                    /\ new.timing[1].requestTime = old.timestamp
                    /\ new.timing[1].responseTime = params.timestamp
                    /\ new.timing[1].duration
                          = new.timing[1].responseTime - new.timing[1].requestTime
                    /\ browser'.messages = browser.messages
       /\ \A j \in 1..Len(browser.networkRequests) :
             (/\ Partial(browser.networkRequests[j])
              /\ ~(/\ FrameStep(IsResponseReceived)
                   /\ input'[1].requestId = browser.networkRequests[j].requestId)
              /\ j <= Len(browser'.networkRequests))
                => Partial(browser'.networkRequests[j])]_vars

\* C23 case: the store holds three records, the first and the last of them
\* created by request-start events with identifier r1; the response to r1
\* has set the fields of the first, with duration 5 - 1, and the other two
\* are partial, while the console store holds a record.
C23_ResponseToFirstOfThree ==
    /\ input = <<ChromeResponseFrame("r1", 404, 5)>>
    /\ Len(browser.networkRequests) = 3
    /\ browser.networkRequests[1].requestId = "r1"
    /\ browser.networkRequests[1].status = <<404>>
    /\ browser.networkRequests[1].timing # Null
    /\ browser.networkRequests[1].timing[1].duration = 4
    /\ browser.networkRequests[2].requestId = "r2"
    /\ Partial(browser.networkRequests[2])
    /\ browser.networkRequests[3].requestId = "r1"
    /\ Partial(browser.networkRequests[3])
    /\ browser.messages # <<>>

\* The state the step ends in, as a macrotask would start from it.
StateAfter ==
    [browser |-> browser', sockets |-> sockets', fetching |-> fetching', waiting |-> waiting',
     replies |-> <<>>, unhandled |-> FALSE, input |-> Null]

\* C24: an explicit disconnect succeeds from every session state
\* (disconnected, connecting, connected): it returns success and raises no
\* fault, ends with the connected flag down and the channel handle, the
\* dialect and the target absent, and leaves both record stores and the
\* correlation-id counter unchanged; a second disconnect right after it
\* succeeds as well and changes nothing of the session.
C24_DisconnectFromEveryState ==
    [][DisconnectStep =>
          /\ \A r \in RepliesOf(replies', "disconnect_browser") : r.result = "ok"
          /\ Len(replies') = 1
          /\ ~unhandled'
          /\ RolledBack(browser')
          /\ browser'.messages = browser.messages
          /\ browser'.networkRequests = browser.networkRequests
          /\ browser'.nextMessageId = browser.nextMessageId
          /\ LET again == disconnect_browser(StateAfter)
             IN  /\ again.browser = browser'
                 /\ again.sockets = sockets'
                 /\ again.fetching = fetching'
                 /\ again.waiting = waiting'
                 /\ again.replies = replies'
                 /\ ~again.unhandled]_vars

\* C24 case: a disconnect has just been made in the middle of a Chrome
\* handshake, with records in both stores and correlation ids consumed: the
\* channel is closing and the session is reset.
C24_DisconnectedDuringHandshake ==
    /\ RepliesOf(replies, "disconnect_browser") # {}
    /\ RolledBack(browser)
    /\ browser.messages # <<>>
    /\ browser.networkRequests # <<>>
    /\ browser.nextMessageId > 1
    /\ \E s \in 1..Len(sockets) :
          /\ sockets[s].readyState = "CLOSING"
          /\ sockets[s].open = "await"
          /\ ~sockets[s].errored

=============================================================================
